---- MODULE Spec2Model ----
(***************************************************************************)
(* Data Cube Query processing algorithm (datacube_query/algs/query.py) and *)
(* the raster helpers it uses (datacube_query/utils.py).                    *)
(*                                                                         *)
(* Python values are encoded uniformly so that they can be compared:       *)
(*   - the empty string / None of a date is the empty sequence <<>>, a     *)
(*     date 'yyyy-mm-dd' is the triple <<y, m, d>>;                        *)
(*   - None of a list-valued argument is <<>>;                             *)
(*   - None of a string-valued argument is the string "None";              *)
(*   - a dict is a function from its keys to its values.                   *)
(***************************************************************************)
EXTENDS Integers, Sequences, FiniteSets, Bags, TLC

VARIABLES
    parameters,     \* the parameter values handed over by the host
    baseOk,         \* outcome of BaseAlgorithm.checkParameterValues for them
    settings,       \* self.get_settings()
    pc,             \* position of the host / of execute
    checkResult,    \* what checkParameterValues returned: [ok, msgs]
    args,           \* the arguments processAlgorithm passes to execute
    idx,            \* execute: index of the product being processed
    i,              \* execute: index of the timestep being processed
    data,           \* execute: data.time of the product being processed
    fetched,        \* per product: timesteps retrieved, or the failure
    output_layers,  \* execute: the local map raster_path -> lyr_name
    files,          \* raster files of the output folder: path -> operations done
    errors,         \* products passed to feedback.reportError, in order
    progress,       \* last value passed to feedback.setProgress
    canceled,       \* feedback.isCanceled()
    outputs,        \* self.outputs
    earlier,        \* self.outputs as the run found it
    started,        \* products that passed the poll of line 293
    written,        \* calls of write_geotiff that returned
    atCancel,       \* started and written when the flag was set
    results,        \* what processAlgorithm returned
    toLoad,         \* context: bag of <<layer, name>> registered for loading
    tables,         \* the shared option tables GTIFF_DEFAULTS, GTIFF_OVR_DEFAULTS
    merge           \* options computed by the last build_overviews / write_geotiff

vars == <<parameters, baseOk, settings, pc, checkResult, args, idx, i,
          data, fetched, output_layers, files, errors, progress, canceled,
          outputs, results, toLoad, tables, merge,
          earlier, started, written, atCancel>>

None == "None"

(***************************************************************************)
(* Bounds of the model.                                                    *)
(***************************************************************************)
MaxTimesteps == 2      \* longest data.time the query engine returns

(***************************************************************************)
(* Parameter values the host can hand over.                                *)
(***************************************************************************)
\* self.products: display key -> product name and measurements
self_products ==
    [k \in {"ls8", "s2"} |->
        IF k = "ls8" THEN [product |-> "ls8_nbar", measurements |-> <<"red", "nir">>]
                     ELSE [product |-> "s2_ard", measurements |-> <<"B04">>]]

\* values of the 'Products and measurements' parameter: the JSON object, as
\* the sequence of its keys (each with its selected measurements)
ProductSelections == {<<>>, <<"ls8">>, <<"s2">>, <<"ls8", "s2">>}

\* values of one date of the date range: '' or 'yyyy-mm-dd'
DateStrings == {<<>>, <<2018, 1, 31>>, <<2018, 2, 1>>}

\* xmin, ymin, xmax, ymax
Extents == { <<-180, -90, 180, 90>>, <<-181, -90, 180, 90>>, <<-180, -91, 180, 90>>,
             <<-180, -90, 181, 90>>, <<-180, -90, 180, 91>>,
             <<500000, 6000000, 510000, 6010000>> }

\* authid of the extent's CRS ('' when the project/layer has none)
ExtentCrsIds == {"", "EPSG:4326", "USER:100000"}

\* a QgsCoordinateReferenceSystem: an invalid one has no authid
OutputCrsValues == { [valid |-> FALSE, authid |-> ""],
                     [valid |-> TRUE, authid |-> "EPSG:3577"],
                     [valid |-> TRUE, authid |-> "USER:100000"],
                     [valid |-> TRUE, authid |-> ""] }

\* parameterAsDouble: 0 when the optional number is not given
OutputResValues == {0, 25}

OutputFolders == {"/out"}

\* defaults.GROUP_BY_FUSE_FUNC: the group_by of each option of the enum
GROUP_BY_FUSE_FUNC == <<"solar_day", None>>

ParameterSpace ==
    [products : ProductSelections,
     date_range : DateStrings \X DateStrings,
     extent : Extents,
     extent_crs : ExtentCrsIds,
     output_crs : OutputCrsValues,
     output_res : OutputResValues,
     group_by : DOMAIN GROUP_BY_FUSE_FUNC,
     output_folder : OutputFolders]

(***************************************************************************)
(* checkParameterValues                                                    *)
(***************************************************************************)
\* datacube.utils.geometry.CRS(crs_str) raises InvalidCRSError unless the
\* string names a CRS the engine knows
InvalidCRSError(crs_str) == crs_str \notin {"EPSG:4326", "EPSG:3577"}

\* Python truthiness of a date string
Truthy(d) == d # <<>>

\* all(date_range)
AllDates(date_range) == \A k \in DOMAIN date_range : Truthy(date_range[k])

\* all([not d for d in date_range])
AllEmpty(date_range) == \A k \in DOMAIN date_range : ~Truthy(date_range[k])

\* datetime.strptime(d, '%Y-%m-%d'): the day count of the proleptic calendar
\* with 12 months of 31 days, which orders dates as datetime does
Strptime(d) == (d[1] * 12 + (d[2] - 1)) * 31 + (d[3] - 1)

MsgProducts == "Please select at least one product"
MsgTwoDates == "Please select two dates or none at all"
MsgDateOrder == "The start date must be earlier than the end date"
MsgExtentCrs == "Please set a valid EPSG CRS for your project/layer"
MsgOutputRes == "Please specify \"Output Resolution\" when specifying \"Output CRS\""
MsgOutputCrs == "Please set a valid EPSG \"Output CRS\""

ProductsMsgs(p) ==
    IF p.products = <<>> THEN <<MsgProducts>> ELSE <<>>

\* `if not all(date_range)` alone: two empty dates are taken for a missing one
DatePairMsgsNotAll(p) ==
    IF ~AllDates(p.date_range) THEN <<MsgTwoDates>> ELSE <<>>

DatePairMsgs(p) ==
    IF ~AllDates(p.date_range) /\ ~AllEmpty(p.date_range)
    THEN <<MsgTwoDates>> ELSE <<>>

DateOrderMsgs(p) ==
    IF AllDates(p.date_range)
    THEN IF Strptime(p.date_range[1]) > Strptime(p.date_range[2])
         THEN <<MsgDateOrder>> ELSE <<>>
    ELSE <<>>

\* the test of the upper latitude left out
ExtentCrsMsgsNoYmax(p) ==
    LET extent == p.extent
        extent_crs == IF p.extent_crs = "" THEN None ELSE p.extent_crs
    IN  IF extent_crs = None
        THEN IF ~(extent[1] >= -180 /\ extent[2] >= -90 /\ extent[3] <= 180)
             THEN <<MsgExtentCrs>> ELSE <<>>
        ELSE IF InvalidCRSError(extent_crs) THEN <<MsgExtentCrs>> ELSE <<>>

ExtentCrsMsgs(p) ==
    LET extent == p.extent
        extent_crs == IF p.extent_crs = "" THEN None ELSE p.extent_crs
    IN  IF extent_crs = None
        THEN IF ~(extent[1] >= -180 /\ extent[2] >= -90
                  /\ extent[3] <= 180 /\ extent[4] <= 90)
             THEN <<MsgExtentCrs>> ELSE <<>>
        ELSE IF InvalidCRSError(extent_crs) THEN <<MsgExtentCrs>> ELSE <<>>

\* the resolution test left out
OutputCrsMsgsNoResolution(p) ==
    IF p.output_crs.valid
    THEN IF InvalidCRSError(p.output_crs.authid) THEN <<MsgOutputCrs>> ELSE <<>>
    ELSE <<>>

OutputCrsMsgs(p) ==
    IF p.output_crs.valid
    THEN (IF p.output_res = 0 THEN <<MsgOutputRes>> ELSE <<>>)
         \o (IF InvalidCRSError(p.output_crs.authid) THEN <<MsgOutputCrs>> ELSE <<>>)
    ELSE <<>>

\* validation that stops at the first failing check
CheckMsgsFirst(p) ==
    LET all == ProductsMsgs(p) \o DatePairMsgs(p) \o DateOrderMsgs(p)
                  \o ExtentCrsMsgs(p) \o OutputCrsMsgs(p)
    IN  IF all = <<>> THEN <<>> ELSE <<Head(all)>>

\* the list msgs at line 115
CheckMsgs(p) ==
    ProductsMsgs(p) \o DatePairMsgs(p) \o DateOrderMsgs(p)
        \o ExtentCrsMsgs(p) \o OutputCrsMsgs(p)

\* the pair checkParameterValues returns: the messages joined with newlines
\* (kept as the sequence of lines), or the outcome of the base class
CheckOutcome(p, base) ==
    IF CheckMsgs(p) # <<>>
    THEN [ok |-> FALSE, msgs |-> CheckMsgs(p)]
    ELSE [ok |-> base, msgs |-> <<>>]

(***************************************************************************)
(* processAlgorithm: marshalling of the parameters                         *)
(***************************************************************************)
\* products[self.products[k]['product']] += [self.products[k]['measurements'][m]]:
\* the product names in the order of the selection
RECURSIVE ProductsOf(_)
ProductsOf(sel) ==
    IF sel = <<>> THEN <<>>
    ELSE <<self_products[Head(sel)].product>> \o ProductsOf(Tail(sel))

DateRangeArg(p) == IF AllDates(p.date_range) THEN p.date_range ELSE <<>>

ExecuteArgs(p) ==
    [products |-> ProductsOf(p.products),
     date_range |-> DateRangeArg(p),
     extent |-> p.extent,
     extent_crs |-> IF p.extent_crs = "" THEN None ELSE p.extent_crs,
     output_crs |-> IF p.output_crs.authid = "" THEN None ELSE p.output_crs.authid,
     output_res |-> IF p.output_res = 0 THEN <<>> ELSE <<p.output_res, p.output_res>>,
     output_folder |-> p.output_folder,
     dask_chunks |-> IF DateRangeArg(p) # <<>> THEN "time:1" ELSE None,
     group_by |-> GROUP_BY_FUSE_FUNC[p.group_by]]

NoArgs == ExecuteArgs([products |-> <<>>, date_range |-> <<<<>>, <<>>>>,
                       extent |-> <<0, 0, 0, 0>>, extent_crs |-> "",
                       output_crs |-> [valid |-> FALSE, authid |-> ""],
                       output_res |-> 0, group_by |-> 1, output_folder |-> ""])

(***************************************************************************)
(* datetime_to_str and the names of the outputs                            *)
(***************************************************************************)
\* A numpy datetime64[ns] is the pair <<s, ns>> standing for s * 10^9 + ns
\* nanoseconds since the epoch, 0 <= ns < 10^9.
NanosPerSecond == 1000000000
SecondsPerDay == 86400

\* datetime64.astype(np.int64) // 1000000000
EpochSeconds(datetime64) == datetime64[1] + (datetime64[2] \div NanosPerSecond)

\* date.fromtimestamp(dt): a calendar date (its day number); a date carries
\* no time of day
DateFromTimestamp(dt) == dt \div SecondsPerDay

\* date.strftime(str_format): the formatted fields; the time directives of a
\* date all format as zero
FormatYmd == <<"%Y-%m-%d">>
FormatYmdHMS == <<"%Y-%m-%d", "%H", "%M", "%S">>

DateStrftime(d, str_format) ==
    [k \in DOMAIN str_format |-> IF str_format[k] = "%Y-%m-%d" THEN d ELSE 0]

datetime_to_str(datetime64, str_format) ==
    DateStrftime(DateFromTimestamp(EpochSeconds(datetime64)), str_format)

\* ds of lines 321-326
DsOf(group_by, dt) ==
    IF group_by = None THEN datetime_to_str(dt, FormatYmdHMS)
                       ELSE datetime_to_str(dt, FormatYmd)

\* tag of lines 321-326 (the separators differ, the fields do not)
TagOf(group_by, dt) ==
    IF group_by = None THEN datetime_to_str(dt, FormatYmdHMS)
                       ELSE datetime_to_str(dt, FormatYmd)

\* basename.format(ds)
LayerName(product, ds) == <<product, ds>>

\* basepath.format(ds) + '.tif', basepath = str(Path(output_folder, basename))
RasterPath(output_folder, product, ds) == <<output_folder, product, ds, ".tif">>

(***************************************************************************)
(* The query engine                                                        *)
(***************************************************************************)
\* time coordinates the engine can return: two on day 0, one on day 1 and
\* one on day 2
Times == { <<0, 0>>, <<3600, 500000000>>, <<86400, 0>>, <<172800, 0>> }

Before(a, b) == a[1] < b[1] \/ (a[1] = b[1] /\ a[2] < b[2])

\* data.time of a successful run_query: a non-empty, strictly increasing time
\* index; grouped by solar day it has one timestep per day
TimeIndexes(group_by) ==
    { t \in UNION { [1..n -> Times] : n \in 1..MaxTimesteps } :
        /\ \A k \in 1..(Len(t) - 1) : Before(t[k], t[k + 1])
        /\ group_by # None =>
             \A j, k \in DOMAIN t :
                j # k => DateFromTimestamp(t[j][1]) # DateFromTimestamp(t[k][1]) }

\* what build_query / run_query raise and execute catches
RetrievalErrors == {"NoDataError", "TooManyDatasetsError", "OSError"}

\* int(k * progress_total), progress_total = 100 / (10 * len(products))
ProgressValue(k, nproducts) == (k * 100) \div (10 * nproducts)

(***************************************************************************)
(* Option tables and override merging (utils.py)                           *)
(***************************************************************************)
\* An optional dict is <<>> for None and <<d>> for the dict d.

\* defaults.GTIFF_DEFAULTS and defaults.GTIFF_OVR_DEFAULTS as imported
DefaultTables ==
    [GTIFF_DEFAULTS |->
        [driver |-> "GTiff", tiled |-> TRUE, blockxsize |-> 256,
         blockysize |-> 256, compress |-> "lzw"],
     GTIFF_OVR_DEFAULTS |->
        [internal_storage |-> TRUE, resampling |-> "nearest", factors |-> "2,4,8,16,32"]]

NoMerge == [fn |-> "", dataset |-> <<>>, raised |-> "", options |-> <<>>]

\* dict.update: d with the items of u set
DictUpdate(d, u) ==
    [k \in DOMAIN d \cup DOMAIN u |-> IF k \in DOMAIN u THEN u[k] ELSE d[k]]

\* all dicts over a subset of the keys of `choice`, each key with its value
DictsOver(choice) ==
    { [k \in keys |-> choice[k]] : keys \in SUBSET DOMAIN choice }

Optional(dicts) == {<<>>} \cup { <<d>> : d \in dicts }

\* values of the datacube_gtiff_ovr_options setting
OverviewOverrides ==
    Optional(DictsOver([internal_storage |-> FALSE, resampling |-> "average",
                        factors |-> "2,4", blocksize |-> 128]))

\* values of the datacube_gtiff_options setting
ProfileOverrides ==
    Optional(DictsOver([compress |-> "deflate", COMPRESS |-> "packbits",
                        blockxsize |-> 512, zlevel |-> 9, width |-> 50]))

\* build_overviews, lines 26-34: the options, the shared table afterwards,
\* the mode the file is opened in and the resampling
OverviewOptions(defaults, overview_options) ==
    LET options == IF overview_options # <<>>
                   THEN DictUpdate(defaults, overview_options[1])
                   ELSE defaults
    IN  [options |-> options,
         GTIFF_OVR_DEFAULTS |-> defaults,
         mode |-> IF options["internal_storage"] THEN "r+" ELSE "r",
         resampling |-> options["resampling"]]

\* the fields write_geotiff derives from the dataset, lines 184-195
Datasets ==
    { [width |-> w, height |-> w, affine |-> "affine", crs |-> "EPSG:3577",
       count |-> 2, dtype |-> "int16"] : w \in {300, 600} }

\* write_geotiff, lines 175 and 187-196: the profile before lcase_dict
MergedProfile(defaults, dataset, profile_override) ==
    LET override == IF profile_override = <<>> THEN <<>> ELSE profile_override[1]
    IN  DictUpdate(DictUpdate(defaults, dataset), override)

\* lcase_dict: adict.iteritems() is not an attribute of a dict of the
\* Python 3 interpreter the plugin runs in, so the call raises before any
\* key is lower-cased
lcase_dict(adict) == [raised |-> "AttributeError", dict |-> <<>>]

\* lines 199-204
BlockAdjusted(profile, dataset) ==
    LET blockx == IF "blockxsize" \in DOMAIN profile THEN profile["blockxsize"] ELSE 0
        blocky == IF "blockysize" \in DOMAIN profile THEN profile["blockysize"] ELSE 0
    IN  IF (blockx # 0 /\ blockx > dataset.width) \/ (blocky # 0 /\ blocky > dataset.height)
        THEN IF {"blockxsize", "blockysize"} \subseteq DOMAIN profile
             THEN [raised |-> "",
                   dict |-> [k \in (DOMAIN profile \ {"blockxsize", "blockysize"})
                                   \cup {"tiled"} |->
                               IF k = "tiled" THEN FALSE ELSE profile[k]]]
             ELSE [raised |-> "KeyError", dict |-> <<>>]
        ELSE [raised |-> "", dict |-> profile]

\* write_geotiff up to rio.open, lines 175-206: the profile the file is
\* opened with, or the exception raised
WriteProfile(defaults, dataset, profile_override) ==
    LET lowered == lcase_dict(MergedProfile(defaults, dataset, profile_override))
    IN  IF lowered.raised # "" THEN lowered
        ELSE BlockAdjusted(lowered.dict, dataset)

(***************************************************************************)
(* Initial state: a fresh instance (__init__) and the values of a run      *)
(***************************************************************************)
ProductNames == { self_products[k].product : k \in DOMAIN self_products }

NotFetched == [status |-> "pending", time |-> <<>>]

NoResults == [OUTPUT_FOLDER |-> "", OUTPUT_LAYERS |-> {}]

\* datacube_build_overviews, datacube_calculate_statistics and the two option
\* overrides (None here)
SettingsSpace ==
    [overviews : BOOLEAN, calc_stats : BOOLEAN,
     gtiff_options : {<<>>}, gtiff_ovr_options : {<<>>}]

\* parameter values of the runs whose export is followed step by step: no
\* product, one or two; no date range and no output CRS, or both
ExportParameters ==
    { p \in ParameterSpace :
        /\ p.products \in { <<>>, <<"ls8">>, <<"ls8", "s2">> }
        /\ p.extent = <<-180, -90, 180, 90>>
        /\ p.extent_crs = ""
        /\ \/ /\ p.date_range = <<<<>>, <<>>>>
              /\ p.output_crs = [valid |-> FALSE, authid |-> ""]
              /\ p.output_res = 0
           \/ /\ p.date_range = << <<2018, 1, 31>>, <<2018, 2, 1>> >>
              /\ p.output_crs = [valid |-> TRUE, authid |-> "EPSG:3577"]
              /\ p.output_res = 25 }

\* self.outputs of an instance: {} after __init__, or the map an earlier run
\* of the instance stored
EarlierOutputs ==
    { <<>>,
      RasterPath("/out", "ls8_nbar", <<-1>>) :> LayerName("ls8_nbar", <<-1>>) }

InitRun ==
    /\ pc = "idle"
    /\ checkResult = [ok |-> FALSE, msgs |-> <<>>]
    /\ args = NoArgs
    /\ idx = 0
    /\ i = 0
    /\ data = <<>>
    /\ fetched = [p \in ProductNames |-> NotFetched]
    /\ output_layers = <<>>
    /\ files = <<>>
    /\ errors = <<>>
    /\ progress = 0
    /\ canceled = FALSE
    /\ results = NoResults
    /\ toLoad = EmptyBag
    /\ started = 0
    /\ written = 0
    /\ atCancel = [started |-> 0, written |-> 0]

(***************************************************************************)
(* Host: validation, then processAlgorithm up to the call of execute       *)
(***************************************************************************)
execVars == <<idx, i, data, fetched, output_layers, files, errors, progress>>
hostVars == <<parameters, baseOk, settings, tables, merge, earlier>>
countVars == <<started, written, atCancel>>

CheckParameterValues ==
    /\ UNCHANGED countVars
    /\ pc = "idle"
    /\ checkResult' = CheckOutcome(parameters, baseOk)
    /\ pc' = "checked"
    /\ UNCHANGED <<args, execVars, hostVars, canceled, outputs, results, toLoad>>

\* lines 221-273 and execute's lines 287-289
ProcessAlgorithm ==
    /\ UNCHANGED countVars
    /\ pc = "checked"
    /\ checkResult.ok
    /\ args' = ExecuteArgs(parameters)
    /\ output_layers' = <<>>
    /\ IF Len(args'.products) = 0
       THEN /\ pc' = "failed"            \* 100 / (10 * 0): ZeroDivisionError
            /\ UNCHANGED progress
       ELSE /\ pc' = "loop"
            /\ progress' = 0
    /\ idx' = 0
    /\ UNCHANGED <<i, data, fetched, files, errors>>
    /\ UNCHANGED <<checkResult, hostVars, canceled, outputs, results, toLoad>>

(***************************************************************************)
(* execute                                                                 *)
(***************************************************************************)
NProducts == Len(args.products)
Product == args.products[idx + 1]
Dt == data[i + 1]
CurrentDs == DsOf(args.group_by, Dt)
CurrentPath == RasterPath(args.output_folder, Product, CurrentDs)

\* self.outputs.update(output_layers) in place of the assignment
StoredOutputsUpdated(old, layers) == layers @@ old

\* self.outputs = output_layers
StoredOutputs(old, layers) == layers

\* execute returns `layers`; lines 275-277 of processAlgorithm
ReturnLayers(layers) ==
    /\ results' = [OUTPUT_FOLDER |-> args.output_folder,
                   OUTPUT_LAYERS |-> DOMAIN layers]
    /\ outputs' = StoredOutputs(outputs, layers)
    /\ pc' = "processed"

\* line 291: the products are exhausted; line 351
ExecuteFinished ==
    /\ UNCHANGED countVars
    /\ pc = "loop"
    /\ idx = NProducts
    /\ ReturnLayers(output_layers)
    /\ UNCHANGED <<checkResult, args, execVars, hostVars, canceled, toLoad>>

\* lines 293-294
ProductCanceled ==
    /\ UNCHANGED countVars
    /\ pc = "loop"
    /\ idx < NProducts
    /\ canceled
    /\ ReturnLayers(output_layers)
    /\ UNCHANGED <<checkResult, args, execVars, hostVars, canceled, toLoad>>

\* lines 293-296: the poll finds no cancellation
ProductStarted ==
    /\ started' = started + 1
    /\ UNCHANGED <<written, atCancel>>
    /\ pc = "loop"
    /\ idx < NProducts
    /\ ~canceled
    /\ pc' = "query"
    /\ UNCHANGED <<checkResult, args, execVars, hostVars, canceled, outputs,
                   results, toLoad>>

\* lines 298-309 and 316-320: build_query and run_query return data
QuerySucceeded(time) ==
    /\ UNCHANGED countVars
    /\ pc = "query"
    /\ data' = time
    /\ fetched' = [fetched EXCEPT ![Product] = [status |-> "ok", time |-> time]]
    /\ i' = 0
    /\ pc' = "write"
    /\ UNCHANGED <<idx, output_layers, files, errors, progress>>
    /\ UNCHANGED <<checkResult, args, hostVars, canceled, outputs, results, toLoad>>

\* the exception not caught: it leaves execute
QueryFailedUncaught(err) ==
    /\ UNCHANGED countVars
    /\ pc = "query"
    /\ fetched' = [fetched EXCEPT ![Product] = [status |-> "failed", time |-> <<>>]]
    /\ pc' = "failed"
    /\ UNCHANGED <<idx, errors, progress, i, data, output_layers, files>>
    /\ UNCHANGED <<checkResult, args, hostVars, canceled, outputs, results, toLoad>>

\* lines 311-314: build_query or run_query raised err
QueryFailed(err) ==
    /\ UNCHANGED countVars
    /\ pc = "query"
    /\ fetched' = [fetched EXCEPT ![Product] = [status |-> "failed", time |-> <<>>]]
    /\ errors' = Append(errors, Product)
    /\ progress' = ProgressValue((idx + 1) * 10, NProducts)
    /\ idx' = idx + 1
    /\ pc' = "loop"
    /\ UNCHANGED <<i, data, output_layers, files>>
    /\ UNCHANGED <<checkResult, args, hostVars, canceled, outputs, results, toLoad>>

\* the step after update_tags: lines 335-341
AfterTags ==
    IF settings.overviews THEN "overviews"
    ELSE IF settings.calc_stats THEN "statistics" ELSE "add"

\* lines 321-331: write_geotiff(..., overwrite=True)
WriteGeotiff ==
    /\ written' = written + 1
    /\ UNCHANGED <<started, atCancel>>
    /\ pc = "write"
    /\ files' = (CurrentPath :> [time_index |-> i, ops |-> <<"write">>,
                                 TIFFTAG_DATETIME |-> <<>>]) @@ files
    /\ pc' = "tags"
    /\ UNCHANGED <<idx, i, data, fetched, output_layers, errors, progress>>
    /\ UNCHANGED <<checkResult, args, hostVars, canceled, outputs, results, toLoad>>

\* line 333
UpdateTags ==
    /\ UNCHANGED countVars
    /\ pc = "tags"
    /\ files' = [files EXCEPT ![CurrentPath] =
                    [@ EXCEPT !.ops = Append(@, "tags"),
                              !.TIFFTAG_DATETIME = TagOf(args.group_by, Dt)]]
    /\ pc' = AfterTags
    /\ UNCHANGED <<idx, i, data, fetched, output_layers, errors, progress>>
    /\ UNCHANGED <<checkResult, args, hostVars, canceled, outputs, results, toLoad>>

\* lines 335-336
BuildOverviews ==
    /\ UNCHANGED countVars
    /\ pc = "overviews"
    /\ files' = [files EXCEPT ![CurrentPath].ops = Append(@, "overviews")]
    /\ pc' = IF settings.calc_stats THEN "statistics" ELSE "add"
    /\ UNCHANGED <<idx, i, data, fetched, output_layers, errors, progress>>
    /\ UNCHANGED <<checkResult, args, hostVars, canceled, outputs, results, toLoad>>

\* lines 338-339
CalculateStatistics ==
    /\ UNCHANGED countVars
    /\ pc = "statistics"
    /\ files' = [files EXCEPT ![CurrentPath].ops = Append(@, "statistics")]
    /\ pc' = "add"
    /\ UNCHANGED <<idx, i, data, fetched, output_layers, errors, progress>>
    /\ UNCHANGED <<checkResult, args, hostVars, canceled, outputs, results, toLoad>>

\* the raster library raises while writing or post-processing the file: the
\* calls of lines 330-339 are outside the try block, the run ends
RasterError ==
    /\ UNCHANGED countVars
    /\ pc \in {"write", "tags", "overviews", "statistics"}
    /\ files' = IF CurrentPath \in DOMAIN files
                THEN [files EXCEPT ![CurrentPath].ops = Append(@, "incomplete")]
                ELSE (CurrentPath :> [time_index |-> i, ops |-> <<"incomplete">>,
                                      TIFFTAG_DATETIME |-> <<>>]) @@ files
    /\ pc' = "failed"
    /\ UNCHANGED <<idx, i, data, fetched, output_layers, errors, progress>>
    /\ UNCHANGED <<checkResult, args, hostVars, canceled, outputs, results, toLoad>>

\* the poll of lines 346-347 left out
AddLayerNoPoll ==
    /\ UNCHANGED countVars
    /\ pc = "add"
    /\ output_layers' = (CurrentPath :> LayerName(Product, CurrentDs)) @@ output_layers
    /\ progress' = ProgressValue(idx * 10 + i + 1, NProducts)
    /\ i' = i + 1
    /\ pc' = IF i + 1 < Len(data) THEN "write" ELSE "saved"
    /\ UNCHANGED <<outputs, results>>
    /\ UNCHANGED <<idx, data, fetched, files, errors>>
    /\ UNCHANGED <<checkResult, args, hostVars, canceled, toLoad>>

\* lines 341-347 and the loop test of line 320
AddLayer ==
    /\ UNCHANGED countVars
    /\ pc = "add"
    /\ output_layers' = (CurrentPath :> LayerName(Product, CurrentDs)) @@ output_layers
    /\ progress' = ProgressValue(idx * 10 + i + 1, NProducts)
    /\ IF canceled
       THEN /\ ReturnLayers(output_layers')
            /\ UNCHANGED i
       ELSE /\ i' = i + 1
            /\ pc' = IF i + 1 < Len(data) THEN "write" ELSE "saved"
            /\ UNCHANGED <<outputs, results>>
    /\ UNCHANGED <<idx, data, fetched, files, errors>>
    /\ UNCHANGED <<checkResult, args, hostVars, canceled, toLoad>>

\* line 349, after the last timestep of the product
ProductSaved ==
    /\ UNCHANGED countVars
    /\ pc = "saved"
    /\ progress' = ProgressValue((idx + 1) * 10, NProducts)
    /\ idx' = idx + 1
    /\ pc' = "loop"
    /\ UNCHANGED <<i, data, fetched, output_layers, files, errors>>
    /\ UNCHANGED <<checkResult, args, hostVars, canceled, outputs, results, toLoad>>

Executing ==
    pc \in {"loop", "query", "write", "tags", "overviews", "statistics", "add", "saved"}

\* the host sets the cancellation flag while execute runs
Cancel ==
    /\ Executing
    /\ ~canceled
    /\ canceled' = TRUE
    /\ atCancel' = [started |-> started, written |-> written]
    /\ UNCHANGED <<started, written>>
    /\ UNCHANGED <<pc, checkResult, args, execVars, hostVars, outputs, results, toLoad>>

(***************************************************************************)
(* postProcessAlgorithm                                                    *)
(***************************************************************************)
\* lines 203-208: one addLayerToLoadOnCompletion per item of self.outputs
PostProcessAlgorithm ==
    /\ UNCHANGED countVars
    /\ pc = "processed"
    /\ toLoad' = toLoad (+) SetToBag({ <<layer, outputs[layer]>> : layer \in DOMAIN outputs })
    /\ pc' = "done"
    /\ UNCHANGED <<checkResult, args, execVars, hostVars, canceled, outputs, results>>

Init ==
    /\ parameters \in ExportParameters
    /\ baseOk \in BOOLEAN
    /\ settings \in SettingsSpace
    /\ outputs \in EarlierOutputs
    /\ earlier = outputs
    /\ tables = DefaultTables
    /\ merge = NoMerge
    /\ InitRun

Next ==
    \/ CheckParameterValues
    \/ ProcessAlgorithm
    \/ ExecuteFinished
    \/ ProductCanceled
    \/ ProductStarted
    \/ \E time \in TimeIndexes(args.group_by) : QuerySucceeded(time)
    \/ \E err \in RetrievalErrors : QueryFailed(err)
    \/ WriteGeotiff
    \/ UpdateTags
    \/ BuildOverviews
    \/ CalculateStatistics
    \/ RasterError
    \/ AddLayer
    \/ ProductSaved
    \/ Cancel
    \/ PostProcessAlgorithm

Spec == Init /\ [][Next]_vars

(***************************************************************************)
(* Validation followed for every parameter value: checkParameterValues and *)
(* processAlgorithm up to the call of execute                              *)
(***************************************************************************)
InitCheck ==
    /\ parameters \in ParameterSpace
    /\ baseOk \in BOOLEAN
    /\ settings = [overviews |-> TRUE, calc_stats |-> TRUE,
                   gtiff_options |-> <<>>, gtiff_ovr_options |-> <<>>]
    /\ outputs = <<>>
    /\ earlier = outputs
    /\ tables = DefaultTables
    /\ merge = NoMerge
    /\ InitRun

NextCheck ==
    \/ CheckParameterValues
    \/ ProcessAlgorithm

SpecCheck == InitCheck /\ [][NextCheck]_vars

(***************************************************************************)
(* Calls of build_overviews and write_geotiff with configured overrides     *)
(***************************************************************************)
mergeOther == <<parameters, baseOk, settings, pc, checkResult, args, idx, i, data,
                fetched, output_layers, files, errors, progress, canceled, outputs,
                results, toLoad, earlier, started, written, atCancel>>

\* a call of build_overviews with the configured override
CallBuildOverviews ==
    /\ LET r == OverviewOptions(tables.GTIFF_OVR_DEFAULTS, settings.gtiff_ovr_options)
       IN  /\ merge' = [fn |-> "build_overviews", dataset |-> <<>>, raised |-> "",
                     options |-> r.options]
           /\ tables' = [tables EXCEPT !.GTIFF_OVR_DEFAULTS = r.GTIFF_OVR_DEFAULTS]
    /\ UNCHANGED mergeOther

\* a call of write_geotiff with the configured override
CallWriteGeotiff(dataset) ==
    /\ LET r == WriteProfile(tables.GTIFF_DEFAULTS, dataset, settings.gtiff_options)
       IN  merge' = [fn |-> "write_geotiff", dataset |-> <<dataset>>,
                         raised |-> r.raised, options |-> r.dict]
    /\ UNCHANGED tables
    /\ UNCHANGED mergeOther

InitMerge ==
    /\ parameters \in { p \in ExportParameters : p.products = <<"ls8">> /\ p.group_by = 1 }
    /\ baseOk = TRUE
    /\ settings \in [overviews : {TRUE}, calc_stats : {TRUE},
                     gtiff_options : ProfileOverrides,
                     gtiff_ovr_options : OverviewOverrides]
    /\ outputs = <<>>
    /\ earlier = outputs
    /\ tables = DefaultTables
    /\ merge = NoMerge
    /\ InitRun

NextMerge ==
    \/ CallBuildOverviews
    \/ \E dataset \in Datasets : CallWriteGeotiff(dataset)

SpecMerge == InitMerge /\ [][NextMerge]_vars

(***************************************************************************)
(* Properties                                                              *)
(***************************************************************************)
Checked == pc # "idle"
Reported(msg) == \E k \in DOMAIN checkResult.msgs : checkResult.msgs[k] = msg
Returned == pc \in {"processed", "done"}

PathsOf(product, f) == { path \in DOMAIN f : path[2] = product }
Occurrences(seq, x) == Cardinality({ k \in DOMAIN seq : seq[k] = x })

EarlierDate(a, b) ==
    \/ a[1] < b[1]
    \/ a[1] = b[1] /\ a[2] < b[2]
    \/ a[1] = b[1] /\ a[2] = b[2] /\ a[3] < b[3]

BothDates == parameters.date_range[1] # <<>> /\ parameters.date_range[2] # <<>>
OneDate == (parameters.date_range[1] # <<>>) # (parameters.date_range[2] # <<>>)

\* C2: with both dates given, the parameters are rejected with the date
\* ordering message exactly when the start date is not earlier than the end
\* date.
C2_DateOrderRejected ==
    (Checked /\ BothDates) =>
        IF EarlierDate(parameters.date_range[1], parameters.date_range[2])
        THEN ~Reported(MsgDateOrder)
        ELSE ~checkResult.ok /\ Reported(MsgDateOrder)

\* C3: a valid output CRS without an output resolution is rejected with the
\* resolution message, execute is never entered with output_crs set and
\* output_res None, and a resolution without an output CRS draws no output
\* CRS message.
C3_ResolutionRequired ==
    /\ (Checked /\ parameters.output_crs.valid /\ parameters.output_res = 0) =>
          ~checkResult.ok /\ Reported(MsgOutputRes)
    /\ pc = "loop" => ~(args.output_crs # None /\ args.output_res = <<>>)
    /\ (Checked /\ ~parameters.output_crs.valid) =>
          ~Reported(MsgOutputRes) /\ ~Reported(MsgOutputCrs)

C3_Witness ==
    /\ Checked
    /\ parameters.output_crs.valid
    /\ parameters.output_res = 0
    /\ Reported(MsgOutputRes)
    /\ ~Reported(MsgOutputCrs)

ExtentAccepted ==
    IF parameters.extent_crs # ""
    THEN ~InvalidCRSError(parameters.extent_crs)
    ELSE /\ parameters.extent[1] >= -180
         /\ parameters.extent[2] >= -90
         /\ parameters.extent[3] <= 180
         /\ parameters.extent[4] <= 90

\* C4: the extent CRS message is reported, and the parameters rejected,
\* exactly when the extent has a CRS the engine does not accept or has no
\* CRS and does not lie within [-180, -90, 180, 90]; execute is not entered
\* then.
C4_ExtentCrsValidated ==
    /\ Checked =>
          /\ Reported(MsgExtentCrs) <=> ~ExtentAccepted
          /\ ~ExtentAccepted => ~checkResult.ok
          /\ Occurrences(checkResult.msgs, MsgExtentCrs) <= 1
    /\ pc = "loop" => ExtentAccepted

C4_Witness ==
    /\ Checked
    /\ parameters.extent_crs = ""
    /\ parameters.extent[4] > 90
    /\ Reported(MsgExtentCrs)

\* C9: the date pair message is reported exactly when one date of the two is
\* given; execute is entered with both dates or none, with the date range as
\* given when both dates are given and with None otherwise.
C9_DatePairOptional ==
    /\ Checked =>
          /\ Reported(MsgTwoDates) <=> OneDate
          /\ OneDate => ~checkResult.ok
    /\ pc = "loop" =>
          /\ ~OneDate
          /\ args.date_range = IF BothDates THEN parameters.date_range ELSE <<>>
          /\ args.dask_chunks = None <=> ~BothDates

C9_Witness ==
    /\ Checked
    /\ parameters.date_range[1] # <<>>
    /\ parameters.date_range[2] = <<>>
    /\ Reported(MsgTwoDates)
    /\ ~checkResult.ok

\* the checks that fail for the parameters, by the message each reports
FailedChecks ==
    (IF parameters.products = <<>> THEN {MsgProducts} ELSE {})
    \cup (IF OneDate THEN {MsgTwoDates} ELSE {})
    \cup (IF BothDates /\ EarlierDate(parameters.date_range[2], parameters.date_range[1])
          THEN {MsgDateOrder} ELSE {})
    \cup (IF ~ExtentAccepted THEN {MsgExtentCrs} ELSE {})
    \cup (IF parameters.output_crs.valid /\ parameters.output_res = 0
          THEN {MsgOutputRes} ELSE {})
    \cup (IF parameters.output_crs.valid /\ InvalidCRSError(parameters.output_crs.authid)
          THEN {MsgOutputCrs} ELSE {})

\* C10: the outcome is a failure carrying exactly one message for each check
\* that fails, whatever the other checks say, and the outcome of the base
\* class when no check fails.
C10_AllChecksReported ==
    Checked =>
        /\ { checkResult.msgs[k] : k \in DOMAIN checkResult.msgs } = FailedChecks
        /\ Len(checkResult.msgs) = Cardinality(FailedChecks)
        /\ FailedChecks # {} => ~checkResult.ok
        /\ FailedChecks = {} => checkResult.ok = baseOk

C10_Witness ==
    /\ Checked
    /\ Cardinality(FailedChecks) >= 4
    /\ Len(checkResult.msgs) >= 4

\* the operations execute performs on each file, by the settings
CompleteOps ==
    <<"write", "tags">>
        \o (IF settings.overviews THEN <<"overviews">> ELSE <<>>)
        \o (IF settings.calc_stats THEN <<"statistics">> ELSE <<>>)

CompletedFiles == { path \in DOMAIN files : files[path].ops = CompleteOps }

\* C5: once the flag is set no further product passes the poll at the head
\* of the product loop and at most one further call of write_geotiff is made;
\* the map execute returns holds exactly the files completed by then.
C5_CancellationPolled ==
    /\ canceled =>
          /\ started = atCancel.started
          /\ written <= atCancel.written + 1
    /\ Returned =>
          /\ DOMAIN outputs = CompletedFiles
          /\ DOMAIN outputs = DOMAIN files
          /\ results.OUTPUT_LAYERS = CompletedFiles

\* the flag is set while the query runs: the first timestep of the product
\* is written, the second is not, and the next product is not started
C5_Witness ==
    /\ Returned
    /\ canceled
    /\ written = atCancel.written + 1
    /\ Len(data) = 2
    /\ i = 0
    /\ started < Len(args.products)
    /\ DOMAIN outputs # {}

\* C6: in a run that returns without cancellation, each retrieved product
\* has as many distinct raster files, and as many entries of the result map,
\* as its result has timesteps.
C6_OneFilePerTimestep ==
    (Returned /\ ~canceled) =>
        \A k \in DOMAIN args.products :
           LET product == args.products[k]
           IN  fetched[product].status = "ok" =>
                 /\ Cardinality(PathsOf(product, files)) = Len(fetched[product].time)
                 /\ Cardinality(PathsOf(product, output_layers))
                       = Len(fetched[product].time)

Entries(f) == { <<layer, f[layer]>> : layer \in DOMAIN f }

\* C7: processAlgorithm reports the keys of the map execute returned and
\* stores that map; postProcessAlgorithm registers each of its entries once
\* and nothing else, in particular no file of an earlier run; each entry
\* names the layer <product, timestamp> and its path is that name with
\* '.tif' under the output directory.
C7_ResultMapLoaded ==
    /\ Returned =>
          /\ results.OUTPUT_LAYERS = DOMAIN output_layers
          /\ results.OUTPUT_FOLDER = parameters.output_folder
          /\ DOMAIN outputs = DOMAIN output_layers
          /\ \A path \in DOMAIN outputs : outputs[path] = output_layers[path]
    /\ pc = "done" =>
          /\ BagToSet(toLoad) = Entries(output_layers)
          /\ \A e \in BagToSet(toLoad) : CopiesIn(e, toLoad) = 1
          /\ \A e \in BagToSet(toLoad) : e[1] \in DOMAIN files
    /\ \A path \in DOMAIN output_layers :
          /\ path[1] = parameters.output_folder
          /\ path[4] = ".tif"
          /\ output_layers[path] = <<path[2], path[3]>>
          /\ \E k \in DOMAIN args.products :
                /\ path[2] = args.products[k]
                /\ \E j \in DOMAIN fetched[path[2]].time :
                      path[3][1] = fetched[path[2]].time[j][1] \div SecondsPerDay

\* an instance that holds the map of an earlier run has run again and
\* registered the two files of this run
C7_Witness ==
    /\ pc = "done"
    /\ DOMAIN earlier # {}
    /\ Cardinality(DOMAIN output_layers) >= 2
    /\ BagCardinality(toLoad) >= 2

\* the value the order of precedence gives key k: the last of the dicts
\* (lowest precedence first) that holds it
RECURSIVE ByPrecedence(_, _)
ByPrecedence(dicts, k) ==
    IF k \in DOMAIN dicts[Len(dicts)] THEN dicts[Len(dicts)][k]
    ELSE ByPrecedence(SubSeq(dicts, 1, Len(dicts) - 1), k)

Merged(dicts) ==
    [k \in UNION { DOMAIN dicts[n] : n \in DOMAIN dicts } |-> ByPrecedence(dicts, k)]

OrEmpty(optional) == IF optional = <<>> THEN <<>> ELSE optional[1]

\* C8: after a call of build_overviews the options are GTIFF_OVR_DEFAULTS
\* with the keys of overview_options replaced; after a call of write_geotiff
\* the profile is GTIFF_DEFAULTS, then the dataset-derived fields, then
\* profile_override; the shared tables are as imported.
C8_OverrideMerging ==
    /\ tables = DefaultTables
    /\ merge.fn = "build_overviews" =>
          /\ merge.raised = ""
          /\ merge.options = Merged(<<DefaultTables.GTIFF_OVR_DEFAULTS,
                                      OrEmpty(settings.gtiff_ovr_options)>>)
    /\ merge.fn = "write_geotiff" =>
          /\ merge.raised = ""
          /\ merge.options = Merged(<<DefaultTables.GTIFF_DEFAULTS, merge.dataset[1],
                                      OrEmpty(settings.gtiff_options)>>)

\* the operations done on a file, without the mark of a raised exception
OpsDone(path) ==
    LET ops == files[path].ops
    IN  IF ops # <<>> /\ ops[Len(ops)] = "incomplete"
        THEN SubSeq(ops, 1, Len(ops) - 1) ELSE ops

IsPrefix(s, t) == Len(s) <= Len(t) /\ SubSeq(t, 1, Len(s)) = s

\* the order of the steps alone: a file exists only for a retrieved product
\* and its operations are an initial part of write, tags, overviews (if
\* set), statistics (if set)
PipelineStepsInOrder ==
    \A path \in DOMAIN files :
        /\ fetched[path[2]].status = "ok"
        /\ IsPrefix(OpsDone(path), CompleteOps)

\* C11: a file is written only after its product was retrieved; its
\* operations come in the order write, tags, overviews (if set), statistics
\* (if set); and every file of the result map has all of them completed.
C11_PipelineOrder ==
    /\ PipelineStepsInOrder
    /\ \A path \in DOMAIN output_layers :
          /\ path \in DOMAIN files
          /\ files[path].ops = CompleteOps

(***************************************************************************)
(* Export of long time series: up to LongTimesteps daily timesteps         *)
(***************************************************************************)
LongTimesteps == 11

\* data.time of n consecutive days
DailyIndex(n) == [k \in 1..n |-> <<(k - 1) * SecondsPerDay, 0>>]

LongTimeIndexes == { DailyIndex(n) : n \in 1..LongTimesteps }

InitProgress ==
    /\ parameters \in { p \in ExportParameters : p.date_range = <<<<>>, <<>>>> }
    /\ baseOk = TRUE
    /\ settings \in SettingsSpace
    /\ outputs = <<>>
    /\ earlier = outputs
    /\ tables = DefaultTables
    /\ merge = NoMerge
    /\ InitRun

NextProgress ==
    \/ CheckParameterValues
    \/ ProcessAlgorithm
    \/ ExecuteFinished
    \/ ProductCanceled
    \/ ProductStarted
    \/ \E time \in LongTimeIndexes : QuerySucceeded(time)
    \/ \E err \in RetrievalErrors : QueryFailed(err)
    \/ WriteGeotiff
    \/ UpdateTags
    \/ BuildOverviews
    \/ CalculateStatistics
    \/ RasterError
    \/ AddLayer
    \/ ProductSaved
    \/ Cancel
    \/ PostProcessAlgorithm

SpecProgress == InitProgress /\ [][NextProgress]_vars

\* C12: every value passed to setProgress is at least the one before it and
\* lies within 0..100, and a run that returns without cancellation has
\* reported 100 last.
C12_ProgressMonotone ==
    [][ /\ progress' >= progress
        /\ progress' \in 0..100
        /\ (pc' = "processed" /\ ~canceled') => progress' = 100 ]_vars

====
